---- MODULE Spec2Model ----
(***************************************************************************)
(* Model of the fractional base converter of src/main.rs:                  *)
(*   parse_input, convert_from_decimal_to_binary, display, main.            *)
(*                                                                         *)
(* f64 values are modelled exactly.  A non-negative f64 x is the natural   *)
(* number x * 2^FracBits, held as a sequence of limbs.  IEEE-754 rounding  *)
(* to 53 significant bits, ties to even, is RoundF64.  Every f64 below     *)
(* 2^31 whose lowest set bit has weight at least 2^-FracBits is            *)
(* represented, which covers 0 and every f64 from 2^(52-FracBits) up.      *)
(*                                                                         *)
(* Rust Strings are sequences of one-character strings.                    *)
(***************************************************************************)
EXTENDS Integers, Sequences, FiniteSets

\* src/main.rs:3  const MAX_DIGITS: u32 = 8;
MAX_DIGITS == 8

\* Width of the f64 significand (52 stored bits and the hidden bit).
F64_MANTISSA_DIGITS == 53

\* A natural number is the sequence of its limbs, radix 2^LimbBits, least
\* significant first, with no leading zero limb (zero is << >>).
LimbBits == 20

\* Number of limbs below the binary point of the fixed-point grid.
FracLimbs == 3

\* Largest k for which all multiples of 2^-k in [0,1) are conversion inputs.
MaxDyadicBits == 4

Radix == 2 ^ LimbBits

\* Number of fractional bits of the fixed-point grid that carries f64 values.
FracBits == FracLimbs * LimbBits

(***************************************************************************)
(* Natural numbers of any size.                                            *)
(***************************************************************************)
Min(a, b) == IF a < b THEN a ELSE b

RECURSIVE TopLimb(_, _)
\* Index of the highest non-zero limb among s[1..n]; 0 when there is none.
TopLimb(s, n) == IF n = 0 THEN 0 ELSE IF s[n] # 0 THEN n ELSE TopLimb(s, n - 1)

\* The canonical form: leading zero limbs removed.
Norm(s) == SubSeq(s, 1, TopLimb(s, Len(s)))

RECURSIVE NatToLimbs(_)
NatToLimbs(n) == IF n = 0 THEN << >> ELSE <<n % Radix>> \o NatToLimbs(n \div Radix)

RECURSIVE LimbsToNat(_)
LimbsToNat(s) == IF s = << >> THEN 0 ELSE s[1] + Radix * LimbsToNat(Tail(s))

IsZero(s) == s = << >>

Limb(s, i) == IF i >= 1 /\ i <= Len(s) THEN s[i] ELSE 0

\* s * Radix^k
ShiftLimbs(s, k) ==
    IF s = << >> THEN << >>
    ELSE [i \in 1..(Len(s) + k) |-> IF i <= k THEN 0 ELSE s[i - k]]

\* 2^k
Pow2(k) ==
    [i \in 1..((k \div LimbBits) + 1) |->
        IF i = (k \div LimbBits) + 1 THEN 2 ^ (k % LimbBits) ELSE 0]

RECURSIVE MulCarry(_, _, _, _)
MulCarry(s, m, i, carry) ==
    IF i > Len(s) THEN NatToLimbs(carry)
    ELSE LET t == s[i] * m + carry
         IN  <<t % Radix>> \o MulCarry(s, m, i + 1, t \div Radix)

\* s * m for a small natural m (m * Radix < 2^31).
MulSmall(s, m) == Norm(MulCarry(s, m, 1, 0))

RECURSIVE AddCarry(_, _, _, _)
AddCarry(a, b, i, carry) ==
    IF i > Len(a) /\ i > Len(b) THEN NatToLimbs(carry)
    ELSE LET t == Limb(a, i) + Limb(b, i) + carry
         IN  <<t % Radix>> \o AddCarry(a, b, i + 1, t \div Radix)

Add(a, b) == AddCarry(a, b, 1, 0)

RECURSIVE SubBorrow(_, _, _, _)
SubBorrow(a, b, i, borrow) ==
    IF i > Len(a) THEN << >>
    ELSE LET t == Limb(a, i) - Limb(b, i) - borrow
         IN  <<t % Radix>> \o SubBorrow(a, b, i + 1, IF t < 0 THEN 1 ELSE 0)

\* a - b, for a >= b.
Sub(a, b) == Norm(SubBorrow(a, b, 1, 0))

RECURSIVE LessFrom(_, _, _)
LessFrom(a, b, i) ==
    IF i = 0 THEN FALSE
    ELSE IF a[i] # b[i] THEN a[i] < b[i] ELSE LessFrom(a, b, i - 1)

\* a < b, for canonical a and b.
Less(a, b) == IF Len(a) # Len(b) THEN Len(a) < Len(b) ELSE LessFrom(a, b, Len(a))

Leq(a, b) == ~Less(b, a)

RECURSIVE DivSmallFrom(_, _, _, _)
\* Long division of s by d from limb i down to limb 1, rem carried in:
\* <<quotient limbs, remainder>>.
DivSmallFrom(s, d, i, rem) ==
    IF i = 0 THEN <<<< >>, rem>>
    ELSE LET r    == rem * Radix + s[i]
             rest == DivSmallFrom(s, d, i - 1, r % d)
         IN  <<rest[1] \o <<r \div d>>, rest[2]>>

\* <<s div d, s mod d>> for a small natural d > 0 (d * Radix < 2^31).
DivSmall(s, d) ==
    LET r == DivSmallFrom(s, d, Len(s), 0) IN <<Norm(r[1]), r[2]>>

\* Number of significant bits of s.
BitLen(s) ==
    IF s = << >> THEN 0
    ELSE LimbBits * (Len(s) - 1)
         + (CHOOSE k \in 1..LimbBits : s[Len(s)] < 2 ^ k /\ s[Len(s)] >= 2 ^ (k - 1))

\* Bit i of s, bit 1 being the least significant.
BitAt(s, i) ==
    IF i < 1 THEN 0
    ELSE (Limb(s, ((i - 1) \div LimbBits) + 1) \div (2 ^ ((i - 1) % LimbBits))) % 2

\* s mod 2^k = 0
LowBitsZero(s, k) ==
    /\ \A i \in 1..Min(k \div LimbBits, Len(s)) : s[i] = 0
    /\ Limb(s, (k \div LimbBits) + 1) % (2 ^ (k % LimbBits)) = 0

\* s - (s mod 2^k)
ClearLowBits(s, k) ==
    Norm([i \in 1..Len(s) |->
            IF i <= k \div LimbBits THEN 0
            ELSE IF i = (k \div LimbBits) + 1
                 THEN s[i] - (s[i] % (2 ^ (k % LimbBits)))
                 ELSE s[i]])

(***************************************************************************)
(* f64 arithmetic.                                                         *)
(***************************************************************************)
\* x rounded to p significant bits, ties to even; inexact says that x itself
\* was cut from a longer exact value.
RoundTo(x, p, inexact) ==
    IF BitLen(x) <= p THEN x
    ELSE LET sh     == BitLen(x) - p
             guard  == BitAt(x, sh)
             sticky == inexact \/ ~LowBitsZero(x, sh - 1)
             odd    == BitAt(x, sh + 1) = 1
             trunc  == ClearLowBits(x, sh)
         IN  IF guard = 1 /\ (sticky \/ odd) THEN Add(trunc, Pow2(sh)) ELSE trunc

\* The f64 nearest to x.
RoundF64(x) == RoundTo(x, F64_MANTISSA_DIGITS, FALSE)

\* u32 as f64: exact, every u32 has at most 32 significant bits.
U32ToF64(n) == ShiftLimbs(NatToLimbs(n), FracLimbs)

\* Mutant of MulF64: the product is kept in single precision (f32).
MulF32(x, base) == RoundTo(MulSmall(x, base), 24, FALSE)

\* fraction *= target_base as f64
MulF64(x, base) == RoundF64(MulSmall(x, base))

\* fraction.floor() as u32   (values stay below 2^31: the cast never saturates)
FloorToU32(x) == LimbsToNat(SubSeq(x, FracLimbs + 1, Len(x)))

\* fraction -= digit as f64
SubF64(x, digit) == RoundF64(Sub(x, U32ToF64(digit)))

\* Mutant of RemainderIsZero: a tolerance instead of the exact comparison,
\* fraction < 2^-10.
RemainderBelowEpsilon(x) == BitLen(x) <= FracBits - 10

\* fraction == 0.0
RemainderIsZero(x) == IsZero(x)

(***************************************************************************)
(* Strings: str::parse::<u32>, str::parse::<f64>, format!("{}", u32).      *)
(***************************************************************************)
DigitChars == <<"0", "1", "2", "3", "4", "5", "6", "7", "8", "9">>

IsDigitChar(c) == \E d \in 1..10 : DigitChars[d] = c

DigitValue(c) == (CHOOSE d \in 1..10 : DigitChars[d] = c) - 1

AllDigits(s) == \A i \in 1..Len(s) : IsDigitChar(s[i])

RECURSIVE DecimalToNat(_)
\* The natural number a string of decimal digits denotes.
DecimalToNat(s) ==
    IF s = << >> THEN << >>
    ELSE Add(MulSmall(DecimalToNat(SubSeq(s, 1, Len(s) - 1)), 10),
             NatToLimbs(DigitValue(s[Len(s)])))

\* Mutant of FormatU32: a digit below 16 is written as one hexadecimal letter.
FormatU32Hex(n) ==
    IF n < 10 THEN <<DigitChars[n + 1]>>
    ELSE IF n < 16 THEN <<(<<"a", "b", "c", "d", "e", "f">>)[n - 9]>>
    ELSE <<DigitChars[(n \div 10) + 1], DigitChars[(n % 10) + 1]>>

RECURSIVE FormatU32(_)
\* format!("{}", n) for an unsigned integer n.
FormatU32(n) ==
    IF n < 10 THEN <<DigitChars[n + 1]>>
    ELSE FormatU32(n \div 10) \o <<DigitChars[(n % 10) + 1]>>

\* A leading '+' is accepted by both parsers.
StripPlus(s) == IF s # << >> /\ s[1] = "+" THEN Tail(s) ELSE s

\* arg.parse::<u32>(): digits only, at least one, value below 2^32.
ParseU32(arg) ==
    LET body == StripPlus(arg)
        bits == DecimalToNat(body)
    IN  IF body # << >> /\ AllDigits(body) /\ BitLen(bits) <= 32
        THEN [ok |-> TRUE, val |-> LimbsToNat(bits)]
        ELSE [ok |-> FALSE, val |-> 0]

RECURSIVE DivPow10(_, _)
\* <<s div 10^k, whether s mod 10^k # 0>>
DivPow10(s, k) ==
    IF k = 0 THEN <<s, FALSE>>
    ELSE LET qr == DivSmall(s, 10)
         IN  IF qr[2] # 0 THEN <<DivPow10(qr[1], k - 1)[1], TRUE>>
             ELSE DivPow10(qr[1], k - 1)

\* arg.parse::<f64>() on the unsigned decimal notations  d+  d+.  d+.d+  .d+
\* (the correctly rounded f64 nearest to the decimal value; two more bits
\* than the grid has are kept for the rounding).
ParseF64(arg) ==
    LET body    == StripPlus(arg)
        dots    == {i \in 1..Len(body) : body[i] = "."}
        dot     == IF dots = {} THEN Len(body) + 1 ELSE CHOOSE i \in dots : TRUE
        intPart == SubSeq(body, 1, dot - 1)
        frac    == SubSeq(body, dot + 1, Len(body))
        wellFormed == /\ Cardinality(dots) <= 1
                      /\ AllDigits(intPart) /\ AllDigits(frac)
                      /\ Len(intPart) + Len(frac) >= 1
        scaled  == MulSmall(ShiftLimbs(DecimalToNat(intPart \o frac), FracLimbs), 4)
        qr      == DivPow10(scaled, Len(frac))
    IN  IF wellFormed
        THEN [ok |-> TRUE, val |-> DivSmall(RoundTo(qr[1], F64_MANTISSA_DIGITS, qr[2]), 4)[1]]
        ELSE [ok |-> FALSE, val |-> << >>]

(***************************************************************************)
(* convert_from_decimal_to_binary                                          *)
(***************************************************************************)
\* Mutant of LoopBody: the loop has no break.
LoopBodyNoBreak(fraction0, result0, base) ==
    LET multiplied == MulF64(fraction0, base)
        digit      == FloorToU32(multiplied)
        remainder  == SubF64(multiplied, digit)
    IN  [fraction |-> remainder,
         result   |-> result0 \o FormatU32(digit) \o <<";">>,
         brk      |-> FALSE]

\* Mutant of LoopBody: the comparison with zero is made on the product,
\* before the digit is taken off.
LoopBodyBreakOnProduct(fraction0, result0, base) ==
    LET multiplied == MulF64(fraction0, base)
        digit      == FloorToU32(multiplied)
        remainder  == SubF64(multiplied, digit)
    IN  [fraction |-> remainder,
         result   |-> result0 \o FormatU32(digit) \o <<";">>,
         brk      |-> RemainderIsZero(multiplied)]

\* One pass through the body of the for loop (lines 96-103); brk says that
\* the pass ended in the break.
LoopBody(fraction0, result0, base) ==
    LET multiplied == MulF64(fraction0, base)
        digit      == FloorToU32(multiplied)
        remainder  == SubF64(multiplied, digit)
    IN  [fraction |-> remainder,
         result   |-> result0 \o FormatU32(digit) \o <<";">>,
         brk      |-> RemainderIsZero(remainder)]

RECURSIVE ConvertFrom(_, _, _, _)
ConvertFrom(fraction0, result0, base, n) ==
    IF n = MAX_DIGITS THEN result0
    ELSE LET next == LoopBody(fraction0, result0, base)
         IN  IF next.brk THEN next.result
             ELSE ConvertFrom(next.fraction, next.result, base, n + 1)

\* The function as a whole: the String it returns.
convert_from_decimal_to_binary(dec, base) == ConvertFrom(dec, <<"0", ".">>, base, 0)

(***************************************************************************)
(* Inputs of the conversion.                                               *)
(***************************************************************************)
\* The f64 n / 2^MaxDyadicBits.
Dyadic(n) == MulSmall(Pow2(FracBits - MaxDyadicBits), n)

DyadicInputs == {Dyadic(n) : n \in 0..(2 ^ MaxDyadicBits - 1)}

\* The largest f64 below 1.
EdgeInputs == {Sub(U32ToF64(1), Pow2(FracBits - F64_MANTISSA_DIGITS))}

\* Decimal literals of the test corpus and of the neighbourhood of its cases.
Literals ==
    { <<"0", ".", "1">>, <<"0", ".", "2">>, <<"0", ".", "3">>,
      <<"0", ".", "6">>, <<"0", ".", "7">>, <<"0", ".", "8">>,
      <<"0", ".", "9">>, <<"0", ".", "1", "6", "6", "6", "6">>,
      <<"0", ".", "5", "7">>, <<"0", ".", "2", "0", "0", "1">>,
      <<"1", ".", "5">>, <<"2", ".", "7">> }

LiteralInputs == {ParseF64(l).val : l \in Literals}

Bases == {0, 1, 2, 3, 5, 8, 10, 16, 60, 190}

(***************************************************************************)
(* parse_input and display.                                                *)
(***************************************************************************)
\* args.get(1).and_then(|arg| arg.parse::<u32>().ok()): the Option as a
\* sequence of at most one value.  args[1] of the source is argv[2] here,
\* sequences being indexed from 1.
FirstArgAsU32(argv) ==
    IF Len(argv) >= 2 /\ ParseU32(argv[2]).ok THEN <<ParseU32(argv[2]).val>> ELSE << >>

\* Lines 50-53: .unwrap_or(2)
TargetBaseOf(argv) ==
    IF FirstArgAsU32(argv) # << >> THEN FirstArgAsU32(argv)[1] ELSE 2

\* Mutant of skip_count: the first argument is always taken for the base.
skip_count_always_two(argv) == 2

\* Lines 55-63.
skip_count(argv) == IF FirstArgAsU32(argv) # << >> THEN 2 ELSE 1

RECURSIVE FlatMapParse(_, _)
\* Lines 65-69: .flat_map(|arg| arg.parse::<f64>()) from position k on; an Err
\* yields nothing.
FlatMapParse(argv, k) ==
    IF k > Len(argv) THEN << >>
    ELSE (IF ParseF64(argv[k]).ok THEN <<ParseF64(argv[k]).val>> ELSE << >>)
         \o FlatMapParse(argv, k + 1)

\* .iter().skip(skip_count)
NumbersOf(argv) == FlatMapParse(argv, skip_count(argv) + 1)

Spaces(n, fill) == [k \in 1..n |-> fill]

\* {:<w} and {:fill<w}
PadRight(text, w, fill) ==
    IF Len(text) >= w THEN text ELSE text \o Spaces(w - Len(text), fill)

\* {:^w}: the odd space goes to the right.
Center(text, w) ==
    IF Len(text) >= w THEN text
    ELSE Spaces((w - Len(text)) \div 2, " ") \o text
         \o Spaces((w - Len(text)) - ((w - Len(text)) \div 2), " ")

RECURSIVE DecimalString(_)
\* The decimal numeral of a natural number of any size; empty for 0.
DecimalString(n) ==
    IF IsZero(n) THEN << >>
    ELSE LET qr == DivSmall(n, 10)
         IN  DecimalString(qr[1]) \o <<DigitChars[qr[2] + 1]>>

RECURSIVE MulPow(_, _, _)
\* x * base^k
MulPow(x, base, k) ==
    IF k = 0 \/ IsZero(x) THEN x ELSE MulPow(MulSmall(x, base), base, k - 1)

\* The part of x below the binary point.
FracPart(x) == Norm(SubSeq(x, 1, Min(FracLimbs, Len(x))))

\* format!("{:.1$}", x, places): x to the given number of decimal places,
\* the exact value rounded half to even.
FormatFixed(x, places) ==
    LET scaled  == MulPow(x, 10, places)
        whole   == SubSeq(scaled, FracLimbs + 1, Len(scaled))
        fr      == FracPart(scaled)
        half    == Pow2(FracBits - 1)
        up      == Less(half, fr) \/ (fr = half /\ Limb(whole, 1) % 2 = 1)
        rounded == IF up THEN Add(whole, <<1>>) ELSE whole
        numeral == DecimalString(rounded)
        padded  == Spaces((places + 1) - Len(numeral), "0") \o numeral
        text    == IF Len(numeral) > places THEN numeral ELSE padded
    IN  SubSeq(text, 1, Len(text) - places) \o <<".">>
        \o SubSeq(text, Len(text) - places + 1, Len(text))

\* Lines 127-131.
HeaderRow(base) ==
    <<"|", " ">> \o Center(<<"B", "a", "s", "e", " ", "1", "0">>, 10)
    \o <<" ", "|", " ">>
    \o Center(<<"B", "a", "s", "e", " ">> \o FormatU32(base), 22)
    \o <<" ", "|">>

\* Line 133.
SeparatorRow ==
    <<"|">> \o PadRight(<<":">>, 12, "-") \o <<"|">> \o PadRight(<<":">>, 24, "-")
    \o <<"|">>

\* Lines 136-140.
TableRow(num, converted) ==
    <<"|", " ">> \o PadRight(FormatFixed(num, MAX_DIGITS), 7, " ")
    \o <<" ", "|", " ">> \o PadRight(converted, 22, " ") \o <<" ", "|">>

(***************************************************************************)
(* Command lines.                                                          *)
(***************************************************************************)
\* Largest number of arguments after the program name.
MaxArgs == 3

\* A base that is also a number, a base only by position, numbers that are
\* no base, and texts that are neither.
ArgTokens ==
    { <<"2">>, <<"1", "6">>, <<"0", ".", "5">>, <<".", "7">>,
      <<"x">>, <<"1", ".", "5", ".">> }

ProgramName == <<"b", "a", "s", "e">>

RECURSIVE ArgLists(_)
\* env::args(): the program name and at most n arguments.
ArgLists(n) ==
    IF n = 0 THEN {<<ProgramName>>}
    ELSE ArgLists(n - 1)
         \cup {Append(l, t) : l \in {m \in ArgLists(n - 1) : Len(m) = n}, t \in ArgTokens}

(***************************************************************************)
(* State.                                                                  *)
(***************************************************************************)
VARIABLES
    pc,             \* position of the program
    decimal,        \* argument of convert_from_decimal_to_binary
    target_base,    \* the target base (argument of convert, result of parse_input)
    result,         \* the String being built by convert
    fraction,       \* the remainder
    iter,           \* number of passes of the for loop begun so far
    args,           \* env::args()
    f64_numbers,    \* the numbers parse_input returns
    target_base_numbers,    \* their conversions, collected by main
    stdout,         \* the lines printed
    row             \* the index i of display's loop

convertVars == <<decimal, result, fraction, iter>>

mainVars == <<args, f64_numbers, target_base_numbers, stdout, row>>

vars == <<pc, target_base, convertVars, mainVars>>

\* A call convert_from_decimal_to_binary(decimal, target_base), lines 92-93.
Init ==
    /\ decimal \in DyadicInputs \cup LiteralInputs \cup EdgeInputs
    /\ target_base \in Bases
    /\ pc = "loop"
    /\ result = <<"0", ".">>
    /\ fraction = decimal
    /\ iter = 0
    /\ args = << >> /\ f64_numbers = << >> /\ target_base_numbers = << >>
    /\ stdout = << >> /\ row = 0

\* Mutant of LoopIteration: the loop is left by the break alone.
LoopIterationUnbounded ==
    /\ pc = "loop"
    /\ LET next == LoopBody(fraction, result, target_base)
       IN  /\ fraction' = next.fraction
           /\ result' = next.result
           /\ pc' = IF next.brk THEN "return" ELSE "loop"
    /\ iter' = iter + 1
    /\ UNCHANGED <<decimal, target_base, mainVars>>

\* Lines 95-104: one iteration, left by the break or by the end of the range.
LoopIteration ==
    /\ pc = "loop"
    /\ iter < MAX_DIGITS
    /\ LET next == LoopBody(fraction, result, target_base)
       IN  /\ fraction' = next.fraction
           /\ result' = next.result
           /\ pc' = IF next.brk \/ iter + 1 = MAX_DIGITS THEN "return" ELSE "loop"
    /\ iter' = iter + 1
    /\ UNCHANGED <<decimal, target_base, mainVars>>

\* Line 106.
Return ==
    /\ pc = "return"
    /\ pc' = "done"
    /\ UNCHANGED <<target_base, convertVars, mainVars>>

Next == LoopIteration \/ Return

Spec == Init /\ [][Next]_vars

\* The program started on a command line.
MainInit ==
    /\ args \in ArgLists(MaxArgs)
    /\ pc = "parse_input"
    /\ target_base = 0
    /\ f64_numbers = << >> /\ target_base_numbers = << >>
    /\ stdout = << >> /\ row = 0
    /\ decimal = << >> /\ result = << >> /\ fraction = << >> /\ iter = 0

\* Mutant of parse_input: the strict policy, the base is unwrapped.
parse_input_strict ==
    /\ pc = "parse_input"
    /\ IF FirstArgAsU32(args) = << >>
       THEN pc' = "panicked" /\ UNCHANGED <<target_base, f64_numbers>>
       ELSE /\ target_base' = FirstArgAsU32(args)[1]
            /\ f64_numbers' = FlatMapParse(args, 3)
            /\ pc' = "map"
    /\ UNCHANGED <<args, target_base_numbers, stdout, row, convertVars>>

\* Line 13 and lines 47-71.
parse_input ==
    /\ pc = "parse_input"
    /\ target_base' = TargetBaseOf(args)
    /\ f64_numbers' = NumbersOf(args)
    /\ pc' = "map"
    /\ UNCHANGED <<args, target_base_numbers, stdout, row, convertVars>>

\* Lines 15-18: the next number is converted and collected.
MapConvert ==
    /\ pc = "map"
    /\ Len(target_base_numbers) < Len(f64_numbers)
    /\ target_base_numbers' =
          Append(target_base_numbers,
                 convert_from_decimal_to_binary(f64_numbers[Len(target_base_numbers) + 1], target_base))
    /\ UNCHANGED <<pc, target_base, args, f64_numbers, stdout, row, convertVars>>

\* Line 20 and lines 127-133: display prints the header and the separator.
DisplayHeader ==
    /\ pc = "map"
    /\ Len(target_base_numbers) = Len(f64_numbers)
    /\ stdout' = <<HeaderRow(target_base), SeparatorRow>>
    /\ row' = 0
    /\ pc' = "rows"
    /\ UNCHANGED <<target_base, args, f64_numbers, target_base_numbers, convertVars>>

\* Lines 135-141: one row; f64_numbers[i] panics when i is out of bounds.
DisplayRow ==
    /\ pc = "rows"
    /\ row < Len(target_base_numbers)
    /\ IF row + 1 > Len(f64_numbers)
       THEN pc' = "panicked" /\ UNCHANGED <<stdout, row>>
       ELSE /\ stdout' = Append(stdout,
                            TableRow(f64_numbers[row + 1], target_base_numbers[row + 1]))
            /\ row' = row + 1
            /\ pc' = pc
    /\ UNCHANGED <<target_base, args, f64_numbers, target_base_numbers, convertVars>>

\* Lines 142 and 21: display and main return.
Exit ==
    /\ pc = "rows"
    /\ row = Len(target_base_numbers)
    /\ pc' = "exit"
    /\ UNCHANGED <<target_base, convertVars, mainVars>>

MainNext == parse_input \/ MapConvert \/ DisplayHeader \/ DisplayRow \/ Exit

SpecMain == MainInit /\ [][MainNext]_vars

(***************************************************************************)
(* Reading the output back, and exact rational arithmetic on it.           *)
(***************************************************************************)
\* Number of digit entries of a result: every entry ends in one ';'.
NEntries(r) == Cardinality({i \in 1..Len(r) : r[i] = ";"})

\* Position of the k-th ';' of r; 2 (the '.' of the prefix) for k = 0.
SemiPos(r, k) ==
    IF k = 0 THEN 2
    ELSE CHOOSE i \in 1..Len(r) :
            r[i] = ";" /\ Cardinality({j \in 1..i : r[j] = ";"}) = k

\* The k-th entry as text, and the digit value it denotes.
EntryText(r, k) == SubSeq(r, SemiPos(r, k - 1) + 1, SemiPos(r, k) - 1)

Entry(r, k) == LimbsToNat(DecimalToNat(EntryText(r, k)))

RECURSIVE DigitsValue(_, _, _)
\* sum for i = 1..k of digit_i * base^(k-i): the first k entries of r read
\* as one numeral in the base.
DigitsValue(r, base, k) ==
    IF k = 0 THEN << >>
    ELSE Add(MulSmall(DigitsValue(r, base, k - 1), base), NatToLimbs(Entry(r, k)))

One == U32ToF64(1)

\* |a - b| <= c
Within(a, b, c) == Leq(a, Add(b, c)) /\ Leq(b, Add(a, c))

RECURSIVE ExactLenFrom(_, _, _, _)
\* The number of digits of the exact (unrounded) expansion of the fraction r
\* in the base when it has at most limit digits, counted from k; -1 otherwise.
ExactLenFrom(r, base, k, limit) ==
    IF IsZero(r) THEN k
    ELSE IF k = limit THEN -1
    ELSE ExactLenFrom(FracPart(MulSmall(r, base)), base, k + 1, limit)

\* f has an exact finite expansion in the base.  f is a multiple of
\* 2^-FracBits, so an expansion, if there is one, has at most FracBits digits.
HasExactFiniteExpansion(f, base) == ExactLenFrom(FracPart(f), base, 0, FracBits) >= 0

\* f has an exact expansion of fewer than MAX_DIGITS digits in the base.
HasShortExactExpansion(f, base) ==
    ExactLenFrom(FracPart(f), base, 0, MAX_DIGITS - 1) >= 0

\* The digits emitted so far denote f exactly: sum digit_i * base^-i = f.
ReconstructsExactly ==
    ShiftLimbs(DigitsValue(result, target_base, NEntries(result)), FracLimbs)
        = MulPow(decimal, target_base, NEntries(result))

InUnitInterval(f) == Less(f, One)

\* 2^-52 on the grid: twice the largest relative rounding error of one f64
\* product.
Ulp52 == Pow2(FracBits - (F64_MANTISSA_DIGITS - 1))

\* Distance from x to the nearest integer.
DistToInteger(x) ==
    LET fr == FracPart(x)
    IN  IF Less(Sub(One, fr), fr) THEN Sub(One, fr) ELSE fr

\* f is farther than 2^-52 from every number that has fewer than MAX_DIGITS
\* digits after the point in the base.
FarFromShortExpansions(f, base) ==
    \A k \in 1..(MAX_DIGITS - 1) :
        Less(MulPow(Ulp52, base, k), DistToInteger(MulPow(f, base, k)))

\* f = sum + r * base^-k for the k entries emitted and the remainder r held.
ExactIdentity ==
    MulPow(decimal, target_base, iter)
        = Add(ShiftLimbs(DigitsValue(result, target_base, iter), FracLimbs), fraction)

\* 0 <= f - sum < base^-k
IsTruncation ==
    LET scaled == MulPow(decimal, target_base, iter)
        sum    == ShiftLimbs(DigitsValue(result, target_base, iter), FracLimbs)
    IN  Leq(sum, scaled) /\ Less(scaled, Add(sum, One))

\* |f - (sum + r * base^-k)| <= 2^-52
IdentityWithinUlp52 ==
    Within(MulPow(decimal, target_base, iter),
           Add(ShiftLimbs(DigitsValue(result, target_base, iter), FracLimbs), fraction),
           MulPow(Ulp52, target_base, iter))

InDomain == InUnitInterval(decimal) /\ target_base >= 2

(***************************************************************************)
(* Claims about convert_from_decimal_to_binary (specification Spec).       *)
(***************************************************************************)

\* C1 as stated: for f in [0,1) and base >= 2, if f has an exact finite
\* expansion in the base then the conversion emits fewer than MAX_DIGITS
\* entries and the entries denote f exactly.
C1_ExactExpansionStopsEarly ==
    (pc = "done" /\ InDomain /\ HasExactFiniteExpansion(decimal, target_base))
        => (NEntries(result) < MAX_DIGITS /\ ReconstructsExactly)

\* C1 (amended): for f in [0,1) and 2 <= base <= 190 (190^7 < 2^53), if f has
\* an exact expansion of fewer than MAX_DIGITS digits in the base then the
\* conversion emits fewer than MAX_DIGITS entries and the entries denote f
\* exactly.
C1_ShortExactExpansionStopsEarly ==
    (pc = "done" /\ InDomain /\ target_base <= 190
        /\ HasShortExactExpansion(decimal, target_base))
        => (NEntries(result) < MAX_DIGITS /\ ReconstructsExactly)

\* C1 witness: 1/16 in base 60 has returned as the two entries 3;45;
C1_Witness ==
    /\ pc = "done" /\ InDomain /\ target_base = 60
    /\ HasShortExactExpansion(decimal, target_base)
    /\ result = <<"0", ".", "3", ";", "4", "5", ";">>

\* C2 as stated: for f in [0,1) and base >= 2, if f has no exact finite
\* expansion in the base then the conversion emits exactly MAX_DIGITS entries.
C2_NoExactExpansionRunsFull ==
    (pc = "done" /\ InDomain /\ ~HasExactFiniteExpansion(decimal, target_base))
        => NEntries(result) = MAX_DIGITS

\* C2 (amended): for f in [0,1) and base >= 2, if f is farther than 2^-52 from
\* every number with fewer than MAX_DIGITS digits in the base then the
\* conversion emits exactly MAX_DIGITS entries.
C2_FarFromShortRunsFull ==
    (pc = "done" /\ InDomain /\ FarFromShortExpansions(decimal, target_base))
        => NEntries(result) = MAX_DIGITS

\* C2 witness: a conversion in an odd base of an input far from every short
\* expansion has returned with MAX_DIGITS entries.
C2_Witness ==
    /\ pc = "done" /\ InDomain /\ target_base = 3
    /\ FarFromShortExpansions(decimal, target_base)
    /\ NEntries(result) = MAX_DIGITS

\* C3 as stated (bases >= 2): every digit entry of the output is in
\* 0..target_base-1.
C3_DigitsBelowBase ==
    target_base >= 2 =>
        \A k \in 1..NEntries(result) :
            Entry(result, k) >= 0 /\ Entry(result, k) < target_base

\* The f64 a decimal literal of the source denotes.
Lit(chars) == ParseF64(chars).val

\* Every entry of r is a non-empty decimal numeral without a leading zero,
\* r starts with "0." and ends with the ';' of its last entry.
WellFormedResult(r) ==
    /\ Len(r) >= 2 /\ r[1] = "0" /\ r[2] = "."
    /\ r[Len(r)] \in {".", ";"}
    /\ \A k \in 1..NEntries(r) :
          /\ EntryText(r, k) # << >>
          /\ AllDigits(EntryText(r, k))
          /\ EntryText(r, k) = FormatU32(Entry(r, k))

\* C4: the result is "0." followed by the entries, each a decimal numeral
\* followed by ';', and the eight literal scenarios return the strings given:
\* (0.5,2) (0.25,2) (0.125,2) (0.7,2) (0.5,8) (0.8,16) (0.5,60) (0.16666,60).
C4_LiteralScenarios ==
    /\ WellFormedResult(result)
    /\ NEntries(result) = iter
    /\ pc = "done" =>
        /\ (target_base = 2 /\ decimal = Lit(<<"0", ".", "5">>))
              => result = <<"0", ".", "1", ";">>
        /\ (target_base = 2 /\ decimal = Lit(<<"0", ".", "2", "5">>))
              => result = <<"0", ".", "0", ";", "1", ";">>
        /\ (target_base = 2 /\ decimal = Lit(<<"0", ".", "1", "2", "5">>))
              => result = <<"0", ".", "0", ";", "0", ";", "1", ";">>
        /\ (target_base = 2 /\ decimal = Lit(<<"0", ".", "7">>))
              => result = <<"0", ".", "1", ";", "0", ";", "1", ";", "1", ";",
                            "0", ";", "0", ";", "1", ";", "1", ";">>
        /\ (target_base = 8 /\ decimal = Lit(<<"0", ".", "5">>))
              => result = <<"0", ".", "4", ";">>
        /\ (target_base = 16 /\ decimal = Lit(<<"0", ".", "8">>))
              => result = <<"0", ".", "1", "2", ";", "1", "2", ";", "1", "2", ";",
                            "1", "2", ";", "1", "2", ";", "1", "2", ";",
                            "1", "2", ";", "1", "2", ";">>
        /\ (target_base = 60 /\ decimal = Lit(<<"0", ".", "5">>))
              => result = <<"0", ".", "3", "0", ";">>
        /\ (target_base = 60 /\ decimal = Lit(<<"0", ".", "1", "6", "6", "6", "6">>))
              => result = <<"0", ".", "9", ";", "5", "9", ";", "5", "8", ";",
                            "3", "3", ";", "3", "6", ";", "0", ";", "0", ";", "0", ";">>

\* C4 witness: convert(0.16666, 60) has returned, with eight entries.
C4_Witness ==
    /\ pc = "done" /\ target_base = 60
    /\ decimal = Lit(<<"0", ".", "1", "6", "6", "6", "6">>)
    /\ NEntries(result) = MAX_DIGITS

\* C5 as stated (bases >= 2): for f >= 1 the conversion returns what the
\* conversion of f - floor(f) returns.
C5_IntegerPartIgnored ==
    (pc = "done" /\ target_base >= 2 /\ ~InUnitInterval(decimal))
        => result = convert_from_decimal_to_binary(FracPart(decimal), target_base)

\* C8: for every input and every base, 0 and 1 included, the loop runs at
\* least once and at most MAX_DIGITS times, each pass adds one entry, and the
\* function returns: in every state short of the return the next step of the
\* loop (or the return) can be taken.
C8_TerminatesWithOneToMaxEntries ==
    /\ iter <= MAX_DIGITS
    /\ NEntries(result) = iter
    /\ pc \in {"return", "done"} => (iter >= 1 /\ NEntries(result) \in 1..MAX_DIGITS)
    /\ pc \in {"loop", "return", "done"}
    /\ pc = "loop" => iter < MAX_DIGITS

\* C8 witness: a conversion to base 0 has returned with one entry, and one to
\* base 1 with MAX_DIGITS entries.
C8_Witness ==
    /\ pc = "done"
    /\ \/ target_base = 0 /\ ~IsZero(decimal) /\ NEntries(result) = 1
       \/ target_base = 1 /\ NEntries(result) = MAX_DIGITS

\* C9 as stated: for f in [0,1) and base >= 2, after the k-th iteration the
\* remainder r satisfies 0 <= r < 1 and f = sum(digit_i * b^-i) + r * b^-k, and
\* the digits are a truncation of f: 0 <= f - sum < b^-k.
C9_ExactLoopInvariant ==
    InDomain => (InUnitInterval(fraction) /\ ExactIdentity /\ IsTruncation)

\* C9 (amended): for f in [0,1) and base >= 2, after the k-th iteration the
\* remainder r satisfies 0 <= r < 1 and f differs from
\* sum(digit_i * b^-i) + r * b^-k by at most 2^-52.
C9_LoopInvariantWithinRounding ==
    InDomain => (InUnitInterval(fraction) /\ IdentityWithinUlp52)

\* C9 witness: after three or more iterations a product has been rounded, so
\* the exact identity is lost while the bound holds.
C9_Witness ==
    /\ InDomain /\ iter >= 3
    /\ ~ExactIdentity
    /\ IdentityWithinUlp52

\* C10 (bases >= 1): once an iteration has left the remainder zero no further
\* iteration runs; an output of fewer than MAX_DIGITS entries comes with a
\* zero remainder; for f > 0 such an output ends in a non-zero digit; and
\* f = 0 gives "0.0;".
C10_EarlyStop ==
    target_base >= 1 =>
        /\ (iter >= 1 /\ IsZero(fraction)) => pc # "loop"
        /\ (pc \in {"return", "done"} /\ NEntries(result) < MAX_DIGITS)
              => IsZero(fraction)
        /\ (pc \in {"return", "done"} /\ NEntries(result) < MAX_DIGITS
              /\ ~IsZero(decimal))
              => Entry(result, NEntries(result)) # 0
        /\ (pc \in {"return", "done"} /\ IsZero(decimal))
              => result = <<"0", ".", "0", ";">>

\* C10 witness: a conversion of f > 0 has returned after three entries, the
\* last one non-zero, and the remainder is zero.
C10_Witness ==
    /\ pc = "done" /\ target_base >= 2 /\ ~IsZero(decimal)
    /\ NEntries(result) = 3
    /\ Entry(result, 3) # 0
    /\ IsZero(fraction)

(***************************************************************************)
(* Claims about parse_input, main and display (specification SpecMain).    *)
(***************************************************************************)
\* Argument 1 is a valid base.
BaseGiven == Len(args) >= 2 /\ ParseU32(args[2]).ok

\* Positions in args of the arguments that are read as numbers.
NumberPositions ==
    {k \in (IF BaseGiven THEN 3 ELSE 2)..Len(args) : ParseF64(args[k]).ok}

\* C6: after parse_input the target base is argument 1 when it parses as a
\* u32 and 2 otherwise, and the number list holds, in their order, exactly
\* the arguments that parse as f64, from argument 2 on when argument 1 is a
\* valid base and from argument 1 on when it is not.
C6_ParseInput ==
    pc # "parse_input" =>
        /\ target_base = IF BaseGiven THEN ParseU32(args[2]).val ELSE 2
        /\ Len(f64_numbers) = Cardinality(NumberPositions)
        /\ \A k \in NumberPositions :
              f64_numbers[Cardinality({j \in NumberPositions : j <= k})]
                  = ParseF64(args[k]).val

\* C6 witness: argument 1 is no base but a number, an unparsable argument
\* stands between two numbers, and both numbers were returned with base 2.
C6_Witness ==
    /\ pc = "map"
    /\ Len(args) = 4
    /\ ~BaseGiven /\ ParseF64(args[2]).ok /\ ~ParseF64(args[3]).ok /\ ParseF64(args[4]).ok
    /\ target_base = 2
    /\ Len(f64_numbers) = 2

====
